---- MODULE Spec2Model ----
(***************************************************************************)
(* k-d tree of soniakeys/kdtree (kdtree.go): construction by New/nk2 and   *)
(* the nearest neighbour search Nearest/nn.                                *)
(*                                                                         *)
(* A Point is a Go slice: a reference to an array of coordinates.  The     *)
(* model keeps every coordinate array in `heap` and a Point is the address *)
(* of its array, so that two Points sharing storage are one address.       *)
(* Coordinates are small integers (float64 is exact on them).              *)
(***************************************************************************)
EXTENDS Integers, Sequences, FiniteSets, TLC

VARIABLES
    heap,      \* address -> coordinate array (the storage behind every Point)
    heap0,     \* history: the heap as the caller set it up
    pts,       \* the caller's []Point handed to New (sorted in place by nk2)
    pts0,      \* history: pts as handed to New
    built,     \* New has returned
    n,         \* KdTree.n: the root *kdNode
    Bounds,    \* Bounds[p]: KdTree.Bounds of the KdTree value query p uses
    target,    \* target[p]: the Point query p asks for
    pc,        \* pc[p]: "off", "idle", "run", "done" or "panic"
    err,       \* err[p]: the run-time error a panicked query died of
    stack,     \* stack[p]: the nn activation records of query p, innermost last
    ret,       \* ret[p]: the values of the nn call that returned last
    lastCall,  \* history: what the nn call that returned last saw and did
    alloc      \* alloc[p]: number of arrays query p has allocated

vars == <<heap, heap0, pts, pts0, built, n, Bounds, target, pc, err, stack,
          ret, lastCall, alloc>>

----------------------------------------------------------------------------
(* Bounds of the model *)

\* largest number of points handed to New
MaxPts == 3
\* coordinates range over 0..MaxCoord
MaxCoord == 1
\* largest number of points when two queries interleave
MaxPtsConc == 1
\* largest number of points of the 3-dimensional trees
MaxPtsDim == 1

\* the queries (goroutines calling Nearest)
Procs == {1, 2}

----------------------------------------------------------------------------
(* Values *)

\* math.Inf(1); squared distances are naturals, so -1 is free to stand for it
Inf == -1
\* the value standing for "the index expression panicked"
OutOfRange == -2

\* float64 <, with +Inf
LtF(a, b) == IF a = Inf THEN FALSE ELSE IF b = Inf THEN TRUE ELSE a < b
\* float64 >, with +Inf
GtF(a, b) == LtF(b, a)
\* float64 <=, with +Inf
LeF(a, b) == ~LtF(b, a)

\* nil Point (a nil slice)
NilPt == <<>>
\* nil *kdNode
Nil == <<>>
\* &kdNode{d, split, left, right}
Node(d, split, left, right) ==
    <<[domElt |-> d, split |-> split, left |-> left, right |-> right]>>

\* len(p) of the Point at address a
LenPt(a) == Len(heap[a])

\* p[i] with Go's 0-based index i
At(p, i) == p[i + 1]

RECURSIVE SumSq(_, _, _)
SumSq(p, q, i) ==
    IF i > Len(p) THEN 0
    ELSE (p[i] - q[i]) * (p[i] - q[i]) + SumSq(p, q, i + 1)

\* Sqd that stops at the shorter of the two points instead of panicking
SqdTruncating(p, q) ==
    IF Len(q) < Len(p) THEN SumSq(q, p, 1) ELSE SumSq(p, q, 1)

\* Point.Sqd on coordinate arrays: ranges over p and indexes q
Sqd(p, q) ==
    IF Len(q) < Len(p) THEN OutOfRange ELSE SumSq(p, q, 1)

----------------------------------------------------------------------------
(* New / nk2 *)

\* part.Less that always compares dimension 0
LessDim0(a, b, dPart) == At(heap[a], 0) < At(heap[b], 0)

\* part.Less on two elements of the slice
Less(a, b, dPart) == At(heap[a], dPart) < At(heap[b], dPart)

\* the orders sort.Sort may leave exset in: every permutation in which no
\* later element is Less than an earlier one (sort.Sort is not stable, the
\* order among equal keys is unspecified).  Points whose coordinates are all
\* equal are kept in the order of their addresses: the outcomes left out
\* differ only in which of several coordinate-equal points stands where, and
\* build trees with the same coordinates at every node.
SortOutcomes(exset, split) ==
    LET N == Len(exset)
        R == {exset[i] : i \in 1..N}
    IN  {q \in [1..N -> R] :
            /\ \A a \in R : Cardinality({i \in 1..N : q[i] = a})
                          = Cardinality({i \in 1..N : exset[i] = a})
            /\ \A i \in 1..N : \A j \in (i+1)..N :
                  /\ ~Less(q[j], q[i], split)
                  /\ heap[q[i]] = heap[q[j]] => q[i][3] < q[j][3]}

\* the loop of lines 74-76: the largest index holding the median's value;
\* m is a 1-based index into the sorted exset
RECURSIVE AdvanceM(_, _, _, _)
AdvanceM(exset, split, d, m) ==
    IF m + 1 <= Len(exset)
       /\ At(heap[exset[m + 1]], split) = At(heap[d], split)
    THEN AdvanceM(exset, split, d, m + 1)
    ELSE m

\* next split dimension
NextSplit(split, d) == IF split + 1 = LenPt(d) THEN 0 ELSE split + 1

\* nk2: the set of results, one per order the sort may produce.  kd is the
\* node built, arr the order exset is left in.
RECURSIVE nk2(_, _)
nk2(exset, split) ==
    IF Len(exset) = 0 THEN {[kd |-> Nil, arr |-> <<>>]}
    ELSE UNION {
        LET m0 == (Len(exset) \div 2) + 1
            d  == srt[m0]
            m  == AdvanceM(srt, split, d, m0)
            s2 == NextSplit(split, d)
        IN  {[kd  |-> Node(d, split, l.kd, r.kd),
              arr |-> l.arr \o <<srt[m]>> \o r.arr] :
                l \in nk2(SubSeq(srt, 1, m - 1), s2),
                r \in nk2(SubSeq(srt, m + 1, Len(srt)), s2)}
        : srt \in SortOutcomes(exset, split)}

\* New(pts, bounds): the caller keeps bounds in Bounds; New stores it as is
New ==
    /\ ~built
    /\ \E r \in nk2(pts, 0) :
        /\ n' = r.kd
        /\ pts' = r.arr
    /\ built' = TRUE
    /\ UNCHANGED <<heap, heap0, pts0, Bounds, target, pc, err, stack, ret,
                   lastCall, alloc>>

----------------------------------------------------------------------------
(* HyperRect *)

\* a HyperRect value: the two Points Min and Max
Rect(min, max) == [Min |-> min, Max |-> max]

\* a copy that shares the storage of hr (HyperRect{hr.Min, hr.Max})
CopyShallow(hr, a1, a2, h) == [rect |-> hr, heap |-> h]

\* HyperRect.Copy: two fresh arrays a1, a2 holding the coordinates of hr
Copy(hr, a1, a2, h) ==
    [rect |-> Rect(a1, a2),
     heap |-> [a \in DOMAIN h \cup {a1, a2} |->
                  IF a = a1 THEN h[hr.Min]
                  ELSE IF a = a2 THEN h[hr.Max]
                  ELSE h[a]]]

\* a[s] = v on the array at address a (Go index s)
Store(h, a, s, v) == [h EXCEPT ![a] = [@ EXCEPT ![s + 1] = v]]

\* whether Go index s is within the array at address a of heap h
InRange(h, a, s) == s + 1 <= Len(h[a])

----------------------------------------------------------------------------
(* Nearest / nn *)

\* the values nn returns for a nil node
NilResultVisited == [nearest |-> NilPt, distSqd |-> Inf, nv |-> 1]

\* line 102: return nil, math.Inf(1), 0
NilResult == [nearest |-> NilPt, distSqd |-> Inf, nv |-> 0]

NoRect == Rect(NilPt, NilPt)

\* the activation record of a call nn(kd, target, hr, maxDistSqd), before
\* its first statement.  hr0 (history) holds the coordinates of hr and maxIn
\* the bound as they were received.
StartFrame(kd, hr, maxDistSqd, h) ==
    [at |-> "start", kd |-> kd, hr |-> hr, maxDistSqd |-> maxDistSqd,
     hr0 |-> Rect(h[hr.Min], h[hr.Max]), maxIn |-> maxDistSqd,
     leftHr |-> NoRect, rightHr |-> NoRect,
     furtherKd |-> Nil, furtherHr |-> NoRect,
     nearest |-> NilPt, distSqd |-> Inf, nodesVisited |-> 0,
     near |-> NilResult]

Top(p) == stack[p][Len(stack[p])]

\* the innermost call returns res; when it was the call made by Nearest
\* (line 94), Nearest returns the same values
Return(p, f, res, farEntered) ==
    /\ stack' = [stack EXCEPT ![p] = SubSeq(@, 1, Len(@) - 1)]
    /\ ret' = [ret EXCEPT ![p] = res]
    /\ lastCall' = [lastCall EXCEPT ![p] =
            [kd |-> f.kd, maxIn |-> f.maxIn, near |-> f.near,
             farEntered |-> farEntered, res |-> res,
             depth |-> Len(stack[p])]]
    /\ pc' = [pc EXCEPT ![p] = IF Len(stack[p]) = 1 THEN "done" ELSE "run"]

\* a run-time panic ends the query
Panic(p) ==
    /\ pc' = [pc EXCEPT ![p] = "panic"]
    /\ err' = [err EXCEPT ![p] = "index out of range"]

\* the address of the i-th array query p allocates next
NewAddr(p, i) == <<"nn", p, alloc[p] + i>>

\* Nearest(p): line 94, the call nn(t.n, p, t.Bounds, math.Inf(1))
Nearest(p) ==
    /\ built
    /\ pc[p] = "idle"
    /\ pc' = [pc EXCEPT ![p] = "run"]
    /\ stack' = [stack EXCEPT ![p] = <<StartFrame(n, Bounds[p], Inf, heap)>>]
    /\ UNCHANGED <<heap, heap0, pts, pts0, built, n, Bounds, target, err,
                   ret, lastCall, alloc>>

\* nn, lines 101-103: a nil node
NnNil(p) ==
    /\ pc[p] = "run"
    /\ Top(p).at = "start"
    /\ Top(p).kd = Nil
    /\ Return(p, Top(p), NilResult, FALSE)
    /\ UNCHANGED <<heap, heap0, pts, pts0, built, n, Bounds, target, err,
                   alloc>>

\* nn, lines 104-122: count the node, copy and narrow the boxes, pick the
\* nearer side and call nn on it
NnEnter(p) ==
    /\ pc[p] = "run"
    /\ Top(p).at = "start"
    /\ Top(p).kd # Nil
    /\ LET f     == Top(p)
           s     == f.kd[1].split
           pivot == f.kd[1].domElt
           tgt   == target[p]
           cl    == Copy(f.hr, NewAddr(p, 1), NewAddr(p, 2), heap)
           cr    == Copy(f.hr, NewAddr(p, 3), NewAddr(p, 4),
                         cl.heap)
           leftHr  == cl.rect
           rightHr == cr.rect
           h0    == cr.heap
           ok109 == InRange(h0, leftHr.Max, s) /\ InRange(h0, pivot, s)
           h1    == Store(h0, leftHr.Max, s, At(h0[pivot], s))
           ok110 == InRange(h1, rightHr.Min, s)
           h2    == Store(h1, rightHr.Min, s, At(h1[pivot], s))
           ok111 == InRange(h2, tgt, s)
           targetInLeft == At(h2[tgt], s) <= At(h2[pivot], s)
           nearerKd  == IF targetInLeft THEN f.kd[1].left ELSE f.kd[1].right
           nearerHr  == IF targetInLeft THEN leftHr ELSE rightHr
           furtherKd == IF targetInLeft THEN f.kd[1].right ELSE f.kd[1].left
           furtherHr == IF targetInLeft THEN rightHr ELSE leftHr
       IN  /\ alloc' = [alloc EXCEPT ![p] = @ + 4]
           /\ IF ~ok109 THEN
                 /\ heap' = h0
                 /\ Panic(p)
                 /\ UNCHANGED <<stack, ret, lastCall>>
              ELSE IF ~ok110 THEN
                 /\ heap' = h1
                 /\ Panic(p)
                 /\ UNCHANGED <<stack, ret, lastCall>>
              ELSE IF ~ok111 THEN
                 /\ heap' = h2
                 /\ Panic(p)
                 /\ UNCHANGED <<stack, ret, lastCall>>
              ELSE
                 /\ heap' = h2
                 /\ stack' = [stack EXCEPT ![p] =
                       SubSeq(@, 1, Len(@) - 1)
                       \o <<[f EXCEPT !.at = "near",
                                      !.leftHr = leftHr,
                                      !.rightHr = rightHr,
                                      !.furtherKd = furtherKd,
                                      !.furtherHr = furtherHr,
                                      !.nodesVisited = 1],
                            StartFrame(nearerKd, nearerHr, f.maxDistSqd, h2)>>]
                 /\ UNCHANGED <<pc, err, ret, lastCall>>
    /\ UNCHANGED <<heap0, pts, pts0, built, n, Bounds, target>>

\* the far side is skipped when the plane is at least as far as the bound
PrunedGe(d, maxDistSqd) == ~LtF(d, maxDistSqd)

\* line 129: d > maxDistSqd
Pruned(d, maxDistSqd) == GtF(d, maxDistSqd)

\* squared distance from the target to the box of the far side
\* (the test of the paper: does further-hr intersect the hypersphere)
RECURSIVE BoxDistSqd(_, _, _, _)
BoxDistSqd(lo, hi, t, i) ==
    IF i > Len(t) THEN 0
    ELSE (IF t[i] < lo[i] THEN (lo[i] - t[i]) * (lo[i] - t[i])
          ELSE IF t[i] > hi[i] THEN (t[i] - hi[i]) * (t[i] - hi[i])
          ELSE 0) + BoxDistSqd(lo, hi, t, i + 1)

\* the distance to furtherHr in place of the distance to the plane
PlaneDistSqdByBox(f, tgt) ==
    BoxDistSqd(heap[f.furtherHr.Min], heap[f.furtherHr.Max], heap[tgt], 1)

\* lines 127-128: d := pivot[s] - target[s]; d *= d
PlaneDistSqd(f, tgt) ==
    LET d == At(heap[f.kd[1].domElt], f.kd[1].split)
             - At(heap[tgt], f.kd[1].split)
    IN  d * d

\* the pivot never replaces the best so far
TakePivotNever(d, distSqd) == FALSE

\* line 132: d < distSqd
TakePivot(d, distSqd) == LtF(d, distSqd)

\* the far result replaces the distance but not the point
MergeFarDistOnly(f, temp) ==
    IF LtF(temp.distSqd, f.distSqd)
    THEN [nearest |-> f.nearest, distSqd |-> temp.distSqd]
    ELSE [nearest |-> f.nearest, distSqd |-> f.distSqd]

\* lines 139-142: the far result replaces the best when strictly closer
MergeFar(f, temp) ==
    IF LtF(temp.distSqd, f.distSqd)
    THEN [nearest |-> temp.nearest, distSqd |-> temp.distSqd]
    ELSE [nearest |-> f.nearest, distSqd |-> f.distSqd]

\* nn, lines 122-137: take the nearer side's result, tighten the bound,
\* return if the far side is pruned, else consider the pivot and call nn on
\* the far side
NnAfterNear(p) ==
    /\ pc[p] = "run"
    /\ Top(p).at = "near"
    /\ LET f    == Top(p)
           tgt  == target[p]
           nearest      == ret[p].nearest
           distSqd      == ret[p].distSqd
           nodesVisited == f.nodesVisited + ret[p].nv
           max1 == IF LtF(distSqd, f.maxDistSqd) THEN distSqd
                   ELSE f.maxDistSqd
           d    == PlaneDistSqd(f, tgt)
           g    == [f EXCEPT !.near = ret[p]]
           d2   == Sqd(heap[f.kd[1].domElt], heap[tgt])
           take == TakePivot(d2, distSqd)
       IN  IF Pruned(d, max1) THEN
              /\ Return(p, g, [nearest |-> nearest, distSqd |-> distSqd,
                               nv |-> nodesVisited], FALSE)
              /\ UNCHANGED err
           ELSE IF d2 = OutOfRange THEN
              /\ Panic(p)
              /\ UNCHANGED <<stack, ret, lastCall>>
           ELSE
              /\ stack' = [stack EXCEPT ![p] =
                    SubSeq(@, 1, Len(@) - 1)
                    \o <<[g EXCEPT !.at = "far",
                                   !.nearest = IF take THEN f.kd[1].domElt
                                               ELSE nearest,
                                   !.distSqd = IF take THEN d2 ELSE distSqd,
                                   !.maxDistSqd = IF take THEN d2 ELSE max1,
                                   !.nodesVisited = nodesVisited],
                         StartFrame(f.furtherKd, f.furtherHr,
                                    IF take THEN d2 ELSE max1, heap)>>]
              /\ UNCHANGED <<pc, err, ret, lastCall>>
    /\ UNCHANGED <<heap, heap0, pts, pts0, built, n, Bounds, target, alloc>>

\* nn, lines 137-143: take the far side's result and return
NnAfterFar(p) ==
    /\ pc[p] = "run"
    /\ Top(p).at = "far"
    /\ LET f == Top(p)
           m == MergeFar(f, ret[p])
       IN  Return(p, f, [nearest |-> m.nearest, distSqd |-> m.distSqd,
                         nv |-> f.nodesVisited + ret[p].nv], TRUE)
    /\ UNCHANGED <<heap, heap0, pts, pts0, built, n, Bounds, target, err,
                   alloc>>

Next ==
    \/ New
    \/ \E p \in Procs : Nearest(p)
    \/ \E p \in Procs : NnNil(p)
    \/ \E p \in Procs : NnEnter(p)
    \/ \E p \in Procs : NnAfterNear(p)
    \/ \E p \in Procs : NnAfterFar(p)

----------------------------------------------------------------------------
(* Initial states: what the caller hands to New and to Nearest *)

\* the k-dimensional points with coordinates in 0..MaxCoord
Grid(k) == [1..k -> 0..MaxCoord]

\* position of a point in the lexicographic order
RECURSIVE RankOf(_, _)
RankOf(pt, i) ==
    IF i = 0 THEN 0 ELSE RankOf(pt, i - 1) * (MaxCoord + 1) + pt[i]

\* the point lists of at most maxPts points of dimension k, one list per
\* multiset: nk2 sorts the list and SortOutcomes covers every order of equal
\* keys, so the order the caller gives is immaterial
PointLists(k, maxPts) ==
    UNION {{c \in [1..np -> Grid(k)] :
               \A i \in 1..(np - 1) : RankOf(c[i], k) <= RankOf(c[i + 1], k)}
           : np \in 0..maxPts}

PtAddr(i) == <<"pts", 0, i>>
TargetAddr(p) == <<"target", p, 0>>
MinAddr(p) == <<"min", p, 0>>
MaxAddr(p) == <<"max", p, 0>>

\* the box with every Min coordinate lo and every Max coordinate hi
BoxOf(k, lo, hi) == Rect([i \in 1..k |-> lo], [i \in 1..k |-> hi])

\* the state the caller sets up: c the points, tg the targets of the active
\* queries, bnds the HyperRect each query's KdTree value carries and boxMem
\* the storage of those boxes that is not the storage of a point
Setup(c, tg, bnds, boxMem) ==
    LET act == DOMAIN tg
        mem == [a \in {PtAddr(i) : i \in 1..Len(c)}
                      \cup {TargetAddr(p) : p \in act}
                      \cup DOMAIN boxMem |->
                   IF a \in DOMAIN boxMem THEN boxMem[a]
                   ELSE IF a[1] = "pts" THEN c[a[3]]
                   ELSE tg[a[2]]]
    IN  /\ heap = mem
        /\ heap0 = mem
        /\ pts = [i \in 1..Len(c) |-> PtAddr(i)]
        /\ pts0 = [i \in 1..Len(c) |-> PtAddr(i)]
        /\ built = FALSE
        /\ n = Nil
        /\ Bounds = [p \in Procs |-> IF p \in act THEN bnds[p] ELSE NoRect]
        /\ target = [p \in Procs |-> IF p \in act THEN TargetAddr(p)
                                     ELSE NilPt]
        /\ pc = [p \in Procs |-> IF p \in act THEN "idle" ELSE "off"]
        /\ err = [p \in Procs |-> ""]
        /\ stack = [p \in Procs |-> <<>>]
        /\ ret = [p \in Procs |-> NilResult]
        /\ lastCall = [p \in Procs |->
               [kd |-> Nil, maxIn |-> Inf, near |-> NilResult,
                farEntered |-> FALSE, res |-> NilResult, depth |-> 0]]
        /\ alloc = [p \in Procs |-> 0]

\* a box with storage of its own for query p
OwnBox(p, box) == (MinAddr(p) :> box.Min) @@ (MaxAddr(p) :> box.Max)

\* the boxes a single query is given: the box enclosing every point of the
\* grid, and for an empty point list every box on the grid
BoxValues(k, c) ==
    IF Len(c) = 0 THEN {Rect(lo, hi) : lo \in Grid(k), hi \in Grid(k)}
    ELSE {BoxOf(k, 0, MaxCoord)}

\* one query on a tree of 2-dimensional points
InitSmall ==
    \E c \in PointLists(2, MaxPts), t \in Grid(2) :
        \E box \in BoxValues(2, c) :
            Setup(c, (1 :> t), (1 :> Rect(MinAddr(1), MaxAddr(1))),
                  OwnBox(1, box))

\* the points, box and target of TestWP2D
WPPts == <<<<2, 3>>, <<5, 4>>, <<9, 6>>, <<4, 7>>, <<8, 1>>, <<7, 2>>>>
WPBox == Rect(<<0, 0>>, <<10, 10>>)
WPTarget == <<9, 2>>

InitWP ==
    Setup(WPPts, (1 :> WPTarget), (1 :> Rect(MinAddr(1), MaxAddr(1))),
          OwnBox(1, WPBox))

Init == InitSmall \/ InitWP

Spec == Init /\ [][Next]_vars

\* two point lists whose trees have a node with a far side to prune
ConcPts == {<<<<0, 0>>, <<1, 1>>>>, <<<<0, 0>>, <<0, 0>>, <<1, 1>>>>}

\* two queries with the same target value running interleaved on the same
\* nodes: on one KdTree value (both read the same Bounds storage), on a tree
\* whose Bounds are two of its own points, or on two KdTree values that
\* differ in Bounds only
InitConc ==
    \E c \in PointLists(2, MaxPtsConc) \cup ConcPts, t \in Grid(2) :
        \/ Setup(c, (1 :> t) @@ (2 :> t),
                 (1 :> Rect(MinAddr(1), MaxAddr(1)))
                 @@ (2 :> Rect(MinAddr(1), MaxAddr(1))),
                 OwnBox(1, BoxOf(2, 0, MaxCoord)))
        \/ /\ Len(c) > 0
           /\ Setup(c, (1 :> t) @@ (2 :> t),
                    (1 :> Rect(PtAddr(1), PtAddr(Len(c))))
                    @@ (2 :> Rect(PtAddr(1), PtAddr(Len(c)))),
                    <<>>)
        \/ \E box \in {BoxOf(2, MaxCoord, 0), BoxOf(2, 0, 0)} :
               Setup(c, (1 :> t) @@ (2 :> t),
                     (1 :> Rect(MinAddr(1), MaxAddr(1)))
                     @@ (2 :> Rect(MinAddr(2), MaxAddr(2))),
                     OwnBox(1, BoxOf(2, 0, MaxCoord)) @@ OwnBox(2, box))

SpecConc == InitConc /\ [][Next]_vars

\* lists of 3-dimensional points whose trees have several nodes; nk2 chains
\* the three points of the second list three nodes deep
DimPts ==
    {<<<<0, 0, 0>>, <<1, 1, 1>>>>,
     <<<<0, 0, 0>>, <<0, 0, 1>>, <<0, 1, 0>>>>,
     <<<<0, 1, 0>>, <<1, 0, 1>>, <<1, 1, 0>>>>}

\* one query on a tree of 3-dimensional points, with a target of 2
\* coordinates or the 3-dimensional origin
InitDim ==
    \E c \in PointLists(3, MaxPtsDim) \cup DimPts :
        \E t \in Grid(2) \cup {<<0, 0, 0>>} :
            Setup(c, (1 :> t), (1 :> Rect(MinAddr(1), MaxAddr(1))),
                  OwnBox(1, BoxOf(3, 0, MaxCoord)))

SpecDim == InitDim /\ [][Next]_vars

----------------------------------------------------------------------------
(* Properties *)

\* the pivots of all nodes of a tree, node before left before right
RECURSIVE PivotSeq(_)
PivotSeq(kd) ==
    IF kd = Nil THEN <<>>
    ELSE <<kd[1].domElt>> \o PivotSeq(kd[1].left) \o PivotSeq(kd[1].right)

\* the nodes of a tree
RECURSIVE SubTrees(_)
SubTrees(kd) ==
    IF kd = Nil THEN {}
    ELSE {kd} \cup SubTrees(kd[1].left) \cup SubTrees(kd[1].right)

Range(seq) == {seq[i] : i \in 1..Len(seq)}

Count(seq, a) == Cardinality({i \in 1..Len(seq) : seq[i] = a})

MinF(a, b) == IF LtF(b, a) THEN b ELSE a

\* query p has a target of the dimension of the tree's points
SameDim(p) == \A a \in Range(pts0) : Len(heap[target[p]]) = Len(heap[a])

\* the nn call of query p that returned last was on a node
NodeCall(p) == lastCall[p].depth > 0 /\ lastCall[p].kd # Nil

\* C1: when Nearest has returned d, no point of the list handed to New is
\* strictly closer to the target than d.
OptimalNearest ==
    \A p \in Procs :
        pc[p] = "done" =>
            \A a \in Range(pts0) :
                ~LtF(Sqd(heap[target[p]], heap[a]), ret[p].distSqd)

\* C2: on a non-empty tree Nearest returns a point nn and a distance d with
\* target.Sqd(nn) = d, and nn is one of the points handed to New.
ConsistentNearest ==
    \A p \in Procs :
        (pc[p] = "done" /\ n # Nil) =>
            /\ ret[p].nearest # NilPt
            /\ ret[p].nearest \in Range(pts0)
            /\ Sqd(heap[target[p]], heap[ret[p].nearest]) = ret[p].distSqd

\* C2 witness: a query on a tree of several nodes has returned a point that
\* is not the root's pivot
ConsistentNearestWitness ==
    /\ pc[1] = "done"
    /\ Len(PivotSeq(n)) >= 3
    /\ ret[1].nearest # NilPt
    /\ ret[1].nearest # n[1].domElt
    /\ ret[1].nv = 3

\* C3: once New has returned, every point of the list handed to New is the
\* pivot of exactly one node.
EveryPointStoredOnce ==
    built => \A a \in Range(pts0) : Count(PivotSeq(n), a) = 1

\* C4: at every node with split s and pivot coordinate v, every point of the
\* left subtree has coordinate [s] <= v and every point of the right subtree
\* has coordinate [s] >= v.
PartitionInvariant ==
    built =>
        \A nd \in SubTrees(n) :
            LET s == nd[1].split
                v == At(heap[nd[1].domElt], s)
            IN  /\ \A a \in Range(PivotSeq(nd[1].left)) : At(heap[a], s) <= v
                /\ \A a \in Range(PivotSeq(nd[1].right)) : At(heap[a], s) >= v

\* C4 witness: a tree with a node split on dimension 1 that has a left and a
\* node that has a right subtree
PartitionInvariantWitness ==
    /\ built
    /\ \E nd \in SubTrees(n) : nd[1].split = 1 /\ nd[1].left # Nil
    /\ \E nd \in SubTrees(n) : nd[1].right # Nil

\* C5: for an empty point list the root is absent, and Nearest returns no
\* point, distance +Inf and 0 nodes visited, without failing.
EmptyTreeQuery ==
    Len(pts0) = 0 =>
        /\ built => n = Nil
        /\ \A p \in Procs :
            /\ pc[p] # "panic"
            /\ pc[p] = "done" =>
                  /\ ret[p].nearest = <<>>
                  /\ ret[p].distSqd = Inf
                  /\ ret[p].nv = 0

\* C5 witness: a query on the tree of an empty list has returned, the box
\* being one with Min > Max
EmptyTreeQueryWitness ==
    /\ Len(pts0) = 0
    /\ pc[1] = "done"
    /\ heap[Bounds[1].Min][1] > heap[Bounds[1].Max][1]

\* the frames of query p in which the boxes have been copied and narrowed
Narrowed(p) == {i \in 1..Len(stack[p]) : stack[p][i].at # "start"}

\* C6: every nn call leaves the coordinates of the box it received unchanged,
\* the narrowed leftHr and rightHr differ from that box in the coordinate
\* each was narrowed on only, and the storage the caller set up (Bounds.Min,
\* Bounds.Max, the points of the nodes, the targets) holds what it held after
\* New, whatever the interleaving of the queries.
BoxCopyIsolation ==
    /\ \A a \in DOMAIN heap0 : heap[a] = heap0[a]
    /\ \A p \in Procs : \A i \in 1..Len(stack[p]) :
          LET f == stack[p][i]
          IN  /\ heap[f.hr.Min] = f.hr0.Min
              /\ heap[f.hr.Max] = f.hr0.Max
    /\ \A p \in Procs : \A i \in Narrowed(p) :
          LET f == stack[p][i]
              s == f.kd[1].split
              v == At(heap[f.kd[1].domElt], s)
          IN  /\ heap[f.leftHr.Min] = f.hr0.Min
              /\ heap[f.leftHr.Max] = [f.hr0.Max EXCEPT ![s + 1] = v]
              /\ heap[f.rightHr.Min] = [f.hr0.Min EXCEPT ![s + 1] = v]
              /\ heap[f.rightHr.Max] = f.hr0.Max

\* C6 witness: two queries on the same KdTree value are both inside nn with
\* narrowed boxes, the narrowing having changed a coordinate
BoxCopyIsolationWitness ==
    /\ Bounds[1] = Bounds[2]
    /\ pc[1] = "run" /\ pc[2] = "run"
    /\ Narrowed(1) # {} /\ Narrowed(2) # {}
    /\ \E i \in Narrowed(1) :
          heap[stack[1][i].leftHr.Max] # stack[1][i].hr0.Max
    /\ \E i \in Narrowed(2) :
          heap[stack[2][i].rightHr.Min] # stack[2][i].hr0.Min

\* the tree holds 3-dimensional points and query p has a 2-dimensional target
Mismatch(p) ==
    /\ n # Nil
    /\ pc[p] # "off"
    /\ Len(heap[target[p]]) = 2
    /\ \A a \in Range(pts0) : Len(heap[a]) = 3

\* C7 as stated: a query with a 2-dimensional target on a non-empty tree of
\* 3-dimensional points ends with the InvalidDimension condition.
DimMismatchInvalidDimension ==
    \A p \in Procs :
        (Mismatch(p) /\ pc[p] \in {"done", "panic"}) =>
            /\ pc[p] = "panic"
            /\ err[p] = "InvalidDimension"

\* C7 amended: a query with a 2-dimensional target on a non-empty tree of
\* 3-dimensional points never returns a result; it can always take a step
\* until it ends in the run-time panic "index out of range".
DimMismatchPanics ==
    \A p \in Procs :
        Mismatch(p) =>
            /\ pc[p] # "done"
            /\ pc[p] = "panic" => err[p] = "index out of range"
            /\ pc[p] = "run" =>
                  ENABLED (NnNil(p) \/ NnEnter(p) \/ NnAfterNear(p)
                           \/ NnAfterFar(p))

\* C7 witness: such a query has panicked inside Point.Sqd, after the nearer
\* side had returned
DimMismatchPanicsWitness ==
    /\ Mismatch(1)
    /\ pc[1] = "panic"
    /\ Top(1).at = "near"

\* C8: a node's far subtree is entered exactly when (pivot[split] -
\* target[split])^2 is not greater than min(incoming bound, near result); when
\* it is not entered the call returns the near result and counts only itself
\* and the near side.  On the points of TestWP2D and target {9,2}, 3 nodes
\* are visited and the result is {8,1} at squared distance 2.
PruningRule ==
    /\ \A p \in Procs :
          (NodeCall(p) /\ SameDim(p)) =>
              LET c     == lastCall[p]
                  s     == c.kd[1].split
                  diff  == At(heap[c.kd[1].domElt], s) - At(heap[target[p]], s)
                  bound == MinF(c.maxIn, c.near.distSqd)
              IN  /\ c.farEntered <=> ~GtF(diff * diff, bound)
                  /\ ~c.farEntered =>
                        /\ c.res.nv = 1 + c.near.nv
                        /\ c.res.nearest = c.near.nearest
                        /\ c.res.distSqd = c.near.distSqd
    /\ (pc[1] = "done" /\ [i \in 1..Len(pts0) |-> heap[pts0[i]]] = WPPts
        /\ heap[target[1]] = WPTarget) =>
          /\ ret[1].nv = 3
          /\ heap[ret[1].nearest] = <<8, 1>>
          /\ ret[1].distSqd = 2

\* C8 witness: the query of TestWP2D has returned, and its last nn call (the
\* root's) skipped the far subtree
PruningRuleWitness ==
    /\ pc[1] = "done"
    /\ Len(pts0) = 6
    /\ lastCall[1].depth = 1
    /\ ~lastCall[1].farEntered

\* C9 as stated: every nn call on a node returns a point, at a squared
\* distance not greater than that of the node's pivot.
PivotAlwaysCandidate ==
    \A p \in Procs :
        (NodeCall(p) /\ SameDim(p)) =>
            /\ lastCall[p].res.nearest # NilPt
            /\ LeF(lastCall[p].res.distSqd,
                   Sqd(heap[lastCall[p].kd[1].domElt], heap[target[p]]))

\* C9 amended: an nn call on a node that enters the far subtree returns a
\* point, at a squared distance not greater than that of the node's pivot;
\* a call that prunes the far subtree returns the near result as it is, and
\* then the pivot is farther than min(incoming bound, near result).  A call
\* whose incoming bound is +Inf, as the one Nearest makes, returns a point at
\* a squared distance not greater than that of the pivot either way.
PivotCandidateUnlessPruned ==
    \A p \in Procs :
        (NodeCall(p) /\ SameDim(p)) =>
            LET c     == lastCall[p]
                dp    == Sqd(heap[c.kd[1].domElt], heap[target[p]])
                bound == MinF(c.maxIn, c.near.distSqd)
            IN  /\ c.farEntered =>
                      /\ c.res.nearest # NilPt
                      /\ LeF(c.res.distSqd, dp)
                /\ ~c.farEntered =>
                      /\ c.res.nearest = c.near.nearest
                      /\ c.res.distSqd = c.near.distSqd
                      /\ GtF(dp, bound)
                /\ c.maxIn = Inf =>
                      /\ c.res.nearest # NilPt
                      /\ LeF(c.res.distSqd, dp)

\* C9 witness: an nn call on a node has pruned the far subtree and returned
\* no point
PivotCandidateUnlessPrunedWitness ==
    \E p \in Procs :
        /\ NodeCall(p)
        /\ ~lastCall[p].farEntered
        /\ lastCall[p].res.nearest = NilPt

\* C10: two queries for the same target on the same nodes return the same
\* point, squared distance and number of nodes visited, whatever the boxes.
BoxIndependent ==
    (pc[1] = "done" /\ pc[2] = "done"
     /\ heap[target[1]] = heap[target[2]]) => ret[1] = ret[2]

\* C10 witness: both queries have returned, their boxes differ, and the
\* search pruned a subtree
BoxIndependentWitness ==
    /\ pc[1] = "done" /\ pc[2] = "done"
    /\ heap[Bounds[1].Min] # heap[Bounds[2].Min]
    /\ ret[1].nv < Len(PivotSeq(n))

====
